---- MODULE Spec2Model ----
(***************************************************************************)
(* A model of donkeycar/templates/train.py: the record store built by      *)
(* collate_records, the batch generator of train(), the checkpoint         *)
(* callback MyCPCallback, the start-up checks of train / sequence_train /  *)
(* go_train and the window assembly of sequence_train.                     *)
(*                                                                         *)
(* Strings stand for paths and keys; make_key concatenates them as the     *)
(* Python code does.  Validation losses are integers (loss * 10).          *)
(***************************************************************************)
EXTENDS Integers, Sequences, FiniteSets, TLC

VARIABLES
    continuous,      \* the --continuous flag of the run
    recFiles,        \* file system: frame -> the state of record_<i>.json
    imgFiles,        \* file system: the frames whose image file exists
    gen_records,     \* the store: key -> sample
    gpc,             \* generator -> "new" | "top" | "walk" | "yield" | "end"
    keys,            \* generator -> keys of the shuffled snapshot not yet visited
    batch_data,      \* generator -> the samples accumulated for the next batch
    num_records,     \* num_records of the train generator (the validation
                     \* generator never reads its own)
    min_records_to_train,   \* the generators' parameter min_records_to_train
    fsEvents,        \* directory changes made by the environment so far
    reset_best_end_of_epoch,   \* MyCPCallback.reset_best_end_of_epoch
    \* history (never read by the program's actions)
    snap,            \* generator -> the key snapshot of its current traversal
    nYield,          \* generator -> batches yielded in its current traversal
    batched,         \* generator -> keys yielded in earlier batches of the traversal
    firstPart,       \* key -> "none" | "train" | "val": the partition first given
    evictedBy,       \* generator -> keys it evicted in its current traversal
    cameBack,        \* generator -> a key it evicted in its previous traversal
                     \*              was in the store again at its snapshot
    decodeFailed,    \* generator -> a batch of its previous traversal was
                     \*              dropped because an image did not decode
    skipped,         \* generator -> keys of its snapshot it found absent from
                     \*              the store in its current traversal
    \* the run: train / sequence_train / go_train
    mode,            \* "train" | "sequence": the template function called
    look_ahead,      \* model_type == "look_ahead" (sequence mode)
    rpc,             \* "start" | "fitting" | "fitted" | "failed" |
                     \* "ingest_raised": where the run is
    steps_per_epoch, \* steps_per_epoch handed to go_train
    fitCalls,        \* calls of kl.model.fit_generator so far
    sequences,       \* sequence mode: the windows built
    train_data,      \* sequence mode: the windows of the training split
    val_data,        \* sequence mode: the windows of the validation split
    seq,             \* sequence mode: the window the generator is working on
    example,         \* sequence mode: the training example made from seq
    \* the checkpoint callback MyCPCallback and the files it writes
    filename_h5,     \* the model file name ends in ".h5"
    best,            \* ModelCheckpoint.best (loss * 10; Inf for np.Inf)
    last_modified_time,  \* MyCPCallback.last_modified_time, 0 for None
    modelFile,       \* mtime of the file at model_path, 0 when it is not there
    jsonFile,        \* the <name>.json architecture file has been written
    weightsFile,     \* the <name>.weights file has been written
    epoch,           \* epochs fitted so far
    hookEnv,         \* what on_best_model meets when it sends the model
    piFile,          \* mtime of the model file copied to the pi, 0 for none
    \* history of the checkpoint callback (never read by the program's actions)
    lossHist,        \* val_loss of every epoch fitted
    resetCalled,     \* the epochs during which reset_best() was called
    callsInEpoch,    \* reset_best() calls in the epoch being fitted
    savedEpochs,     \* the epochs at whose end ModelCheckpoint saved the model
    \* the images the generators put into their batches
    CACHE_IMAGES,    \* cfg.CACHE_IMAGES
    aug,             \* the --aug option: augment_image is applied
    img_data,        \* key -> record['img_data'] (NoImage for None)
    placed,          \* the img_arr last put into inputs_img, and for which key
    fresh,           \* history: what decoding and augmenting at that moment gives
    \* the pruning loop of go_train (cfg.PRUNE_CNN)
    ppc,             \* "off" | "begin" | "loop" | "done": where go_train is
    kl_channels,     \* get_total_channels(kl.model)
    cnn_channels,    \* the channel count go_train tracks
    target_channels, \* the channel count at which the loop stops
    percent_pruning, \* cfg.PRUNE_PERCENT_PER_ITERATION
    percent_target,  \* cfg.PRUNE_PERCENT_TARGET
    max_val_loss,    \* full_model_val_loss + PRUNE_VAL_LOSS_DEGRADATION_LIMIT
    prune_loss,      \* min val_loss of the last pruning iteration
    pruneSaved,      \* the channel counts n of the files <name>_prune_<n>_filters.h5
    \* history of the pruning loop (never read by the program's actions)
    orig_channels,   \* the channels of the model before pruning
    pruneIters       \* pruning iterations made (counted up to MaxPruneIters)

fsVars   == <<recFiles, imgFiles>>
genVars  == <<gpc, keys, batch_data, num_records>>
histVars == <<snap, nYield, batched, firstPart, evictedBy, cameBack,
              decodeFailed, skipped>>
runVars  == <<mode, look_ahead, rpc, steps_per_epoch, fitCalls, sequences,
              train_data, val_data>>
seqVars  == <<seq, example>>
cpVars   == <<filename_h5, best, last_modified_time, modelFile, jsonFile,
              weightsFile, epoch, hookEnv, piFile>>
cpHist   == <<lossHist, resetCalled, callsInEpoch, savedEpochs>>
cacheVars == <<CACHE_IMAGES, aug, img_data, placed, fresh>>
pruneVars == <<ppc, kl_channels, cnn_channels, target_channels, percent_pruning,
               percent_target, max_val_loss, prune_loss, pruneSaved,
               orig_channels, pruneIters>>
vars == <<continuous, recFiles, imgFiles, fsEvents, gen_records, gpc, keys, batch_data,
          num_records, min_records_to_train, reset_best_end_of_epoch,
          snap, nYield, batched, firstPart, evictedBy, cameBack, decodeFailed,
          skipped,
          mode, look_ahead, rpc, steps_per_epoch, fitCalls, sequences,
          train_data, val_data, seq, example,
          filename_h5, best, last_modified_time, modelFile, jsonFile,
          weightsFile, epoch, hookEnv, piFile,
          lossHist, resetCalled, callsInEpoch, savedEpochs,
          CACHE_IMAGES, aug, img_data, placed, fresh,
          ppc, kl_channels, cnn_channels, target_channels, percent_pruning,
          percent_target, max_val_loss, prune_loss, pruneSaved,
          orig_channels, pruneIters>>

----------------------------------------------------------------------------
(* Bounds and configuration *)

MaxFrames == 3            \* frames (record + image) the directories can hold
MaxFsEvents == 2          \* directory changes during one run
MinRecords == 2           \* stands for min_records_to_train (1000 in the code)
BATCH_SIZE == 2           \* cfg.BATCH_SIZE

MaxEpochs == 4            \* epochs fitted in one run
MaxLoss == 5              \* validation losses are 2..MaxLoss (0.2 .. MaxLoss / 10)
MaxCalls == 2             \* reset_best() calls counted within one epoch
Inf == 1000               \* np.Inf: above every loss
FirstIndex == 9           \* first frame index of the long tub of a run
MaxRunFrames == 6         \* frames the long tub of a run can hold
MaxPruneIters == 6        \* pruning iterations counted
MaxAug == 2               \* outcomes of one augment_image call
PRUNE_VAL_LOSS_DEGRADATION_LIMIT == 2     \* cfg value (0.2), times 10
SEQUENCE_LENGTH == 2      \* cfg.SEQUENCE_LENGTH
TrainSplitPct == 80       \* cfg.TRAIN_TEST_SPLIT, in percent

Losses == 2..MaxLoss

\* img_arr is None: no image
NoImage == [frame |-> [tub_path |-> "", index |-> 0], aug |-> 0]

\* No image has been put into a batch yet
NoUse == [key |-> "", img |-> NoImage]

\* No training example made yet
NoExample == [inputs_img |-> <<>>, vec_in |-> <<>>, label_vec |-> <<>>]

TubPaths == <<"t1", "t11">>

FrameAt(i) ==
    [tub_path |-> TubPaths[((i - 1) % Len(TubPaths)) + 1],
     index    |-> ((i - 1) \div Len(TubPaths)) + 1]

Frames == {FrameAt(i) : i \in 1..MaxFrames}

\* The directories of a whole run: a long tub, and a second tub whose path
\* starts with the path of the first
RunFrames ==
    {[tub_path |-> TubPaths[1], index |-> i] :
        i \in FirstIndex..(FirstIndex + MaxRunFrames - 1)}
    \cup {[tub_path |-> TubPaths[2], index |-> 1]}

----------------------------------------------------------------------------
(* Keys *)

DigitStr == <<"0", "1", "2", "3", "4", "5", "6", "7", "8", "9">>

\* Python's str() of a non-negative int
RECURSIVE str(_)
str(n) == IF n < 10 THEN DigitStr[n + 1]
          ELSE str(n \div 10) \o DigitStr[(n % 10) + 1]

make_key(sample) == sample.tub_path \o str(sample.index)

make_next_key(sample, index_offset) ==
    sample.tub_path \o str(sample.index + index_offset)

----------------------------------------------------------------------------
(* Record discovery and ingestion *)

TubPos(p) == CHOOSE i \in 1..Len(TubPaths) : TubPaths[i] = p

\* f comes before g in the listing: tubs in the order given, records of one
\* tub by index
Before(f, g) ==
    \/ TubPos(f.tub_path) < TubPos(g.tub_path)
    \/ TubPos(f.tub_path) = TubPos(g.tub_path) /\ f.index < g.index

RECURSIVE SortFrames(_)
SortFrames(S) ==
    IF S = {} THEN <<>>
    ELSE LET f == CHOOSE x \in S : \A y \in S \ {x} : Before(x, y)
         IN  <<f>> \o SortFrames(S \ {f})

\* gather_records: the record files of every tub
gather_records(files) == SortFrames({f \in DOMAIN files : files[f] # "none"})

Remove(store, key) == [k \in DOMAIN store \ {key} |-> store[k]]

\* gen_records[key] = sample
Put(store, key, sample) == (key :> sample) @@ store

NewSample(f, heads) ==
    [tub_path |-> f.tub_path, index |-> f.index, train |-> heads]

\* collate_records without `if key in gen_records: continue`
RECURSIVE collate_records_noskip(_, _, _, _)
collate_records_noskip(records, store, files, coin) ==
    IF records = <<>> THEN store
    ELSE LET f    == Head(records)
             key  == make_key(f)
             rest == Tail(records)
         IN  IF files[f] # "ok"
                THEN collate_records_noskip(rest, store, files, coin)
             ELSE collate_records_noskip(rest,
                      Put(store, key, NewSample(f, coin[f])), files, coin)

\* A record file is "none" (no file), "ok", "bad" (unreadable or not JSON) or
\* "nofield" (JSON without a usable cam/image_array, user/angle or
\* user/throttle)
RecStates == {"none", "ok", "bad", "nofield"}

\* collate_records(records, gen_records, opts); coin[f] is the outcome of
\* random.uniform(0., 1.0) > 0.2 drawn for record f.  The store is changed in
\* place: when a record raises, the entries made so far stay.
RECURSIVE collate_records(_, _, _, _)
collate_records(records, store, files, coin) ==
    IF records = <<>> THEN store
    ELSE LET f    == Head(records)
             key  == make_key(f)
             rest == Tail(records)
         IN  IF key \in DOMAIN store
                THEN collate_records(rest, store, files, coin)
             ELSE IF files[f] = "bad"          \* try: json.load  except: continue
                THEN collate_records(rest, store, files, coin)
             ELSE IF files[f] = "nofield"      \* KeyError / ValueError
                THEN store
             ELSE collate_records(rest, Put(store, key, NewSample(f, coin[f])),
                                  files, coin)

\* collate_records leaves by an exception: json_data[...] or float(...) of a
\* record that was loaded fails
RECURSIVE collate_raises(_, _, _)
collate_raises(records, ks, files) ==
    IF records = <<>> THEN FALSE
    ELSE LET f   == Head(records)
             key == make_key(f)
         IN  IF key \in ks \/ files[f] = "bad"
                THEN collate_raises(Tail(records), ks, files)
             ELSE IF files[f] = "nofield" THEN TRUE
             ELSE collate_raises(Tail(records), ks \cup {key}, files)

\* A coin for every readable record, drawn or not
AllCoins(files) == [{f \in DOMAIN files : files[f] = "ok"} -> BOOLEAN]

\* The coin flips a run of collate_records can draw: one for every readable
\* record whose key is not in the store
Coins(files, store) ==
    [{f \in DOMAIN files : files[f] = "ok" /\ make_key(f) \notin DOMAIN store}
       -> BOOLEAN]

----------------------------------------------------------------------------
(* The batch generator of train(): generator(save_best, opts, data, ...) *)

Gens == {"train", "val"}          \* train_gen and val_gen
isTrainSet(g) == g = "train"

EmptyStore == [k \in {} |-> TRUE]

ImgOf(rec) == [tub_path |-> rec.tub_path, index |-> rec.index]

\* os.path.exists(record['image_path']); load_scaled_image_arr returns an
\* array exactly when the file is there
ImageThere(rec) == ImgOf(rec) \in imgFiles

KeysOfBatch(b) == {make_key(b[i]) : i \in 1..Len(b)}

PartName(b) == IF b THEN "train" ELSE "val"

\* The orders in which shuffle(keys) can leave a set of keys
RECURSIVE Orders(_)
Orders(S) ==
    IF S = {} THEN {<<>>}
    ELSE UNION {{<<k>> \o o : o \in Orders(S \ {k})} : k \in S}

SeqToSet(q) == {q[i] : i \in 1..Len(q)}

\* Walk without `if img_arr is None: continue`: a full batch is yielded
\* whether its images decoded or not
RECURSIVE Walk_nodecodecheck(_, _, _, _)
Walk_nodecodecheck(order, data, bd, isTrain) ==
    IF order = <<>>
    THEN [data |-> data, bd |-> bd, left |-> {}, yielded |-> FALSE, ev |-> {},
          raised |-> FALSE, sk |-> {}]
    ELSE LET key  == Head(order)
             rest == Tail(order)
         IN  IF key \notin DOMAIN data
                THEN LET r == Walk_nodecodecheck(rest, data, bd, isTrain)
                     IN  [r EXCEPT !.sk = @ \cup {key}]
             ELSE IF data[key].train # isTrain
                THEN Walk_nodecodecheck(rest, data, bd, isTrain)
             ELSE IF continuous /\ ~ImageThere(data[key])
                THEN LET r == Walk_nodecodecheck(rest, Remove(data, key), bd,
                                                 isTrain)
                     IN  [r EXCEPT !.ev = @ \cup {key}]
             ELSE LET bd2 == Append(bd, data[key])
                  IN  IF Len(bd2) = BATCH_SIZE
                      THEN [data |-> data, bd |-> bd2, left |-> SeqToSet(rest),
                            yielded |-> TRUE, ev |-> {}, raised |-> FALSE,
                            sk |-> {}]
                      ELSE Walk_nodecodecheck(rest, data, bd2, isTrain)

\* Walk with the eviction of lines 413-418 not guarded by `if continuous:`
RECURSIVE Walk_evictalways(_, _, _, _)
Walk_evictalways(order, data, bd, isTrain) ==
    IF order = <<>>
    THEN [data |-> data, bd |-> bd, left |-> {}, yielded |-> FALSE, ev |-> {},
          raised |-> FALSE, sk |-> {}]
    ELSE LET key  == Head(order)
             rest == Tail(order)
         IN  IF key \notin DOMAIN data
                THEN LET r == Walk_evictalways(rest, data, bd, isTrain)
                     IN  [r EXCEPT !.sk = @ \cup {key}]
             ELSE IF data[key].train # isTrain
                THEN Walk_evictalways(rest, data, bd, isTrain)
             ELSE IF ~ImageThere(data[key])
                THEN LET r == Walk_evictalways(rest, Remove(data, key), bd,
                                               isTrain)
                     IN  [r EXCEPT !.ev = @ \cup {key}]
             ELSE LET bd2 == Append(bd, data[key])
                  IN  IF /\ Len(bd2) = BATCH_SIZE
                         /\ \A i \in 1..Len(bd2) : ImageThere(bd2[i])
                      THEN [data |-> data, bd |-> bd2, left |-> SeqToSet(rest),
                            yielded |-> TRUE, ev |-> {}, raised |-> FALSE,
                            sk |-> {}]
                      ELSE Walk_evictalways(rest, data, bd2, isTrain)

\* Walk without `if not key in data: continue`: data[key] of a key that has
\* left the store raises KeyError
RECURSIVE Walk_nomembership(_, _, _, _)
Walk_nomembership(order, data, bd, isTrain) ==
    IF order = <<>>
    THEN [data |-> data, bd |-> bd, left |-> {}, yielded |-> FALSE, ev |-> {},
          raised |-> FALSE, sk |-> {}]
    ELSE LET key  == Head(order)
             rest == Tail(order)
         IN  IF key \notin DOMAIN data
                THEN [data |-> data, bd |-> bd, left |-> SeqToSet(rest),
                      yielded |-> FALSE, ev |-> {}, raised |-> TRUE,
                      sk |-> {key}]
             ELSE IF data[key].train # isTrain
                THEN Walk_nomembership(rest, data, bd, isTrain)
             ELSE IF continuous /\ ~ImageThere(data[key])
                THEN LET r == Walk_nomembership(rest, Remove(data, key), bd,
                                                isTrain)
                     IN  [r EXCEPT !.ev = @ \cup {key}]
             ELSE LET bd2 == Append(bd, data[key])
                  IN  IF /\ Len(bd2) = BATCH_SIZE
                         /\ \A i \in 1..Len(bd2) : ImageThere(bd2[i])
                      THEN [data |-> data, bd |-> bd2, left |-> SeqToSet(rest),
                            yielded |-> TRUE, ev |-> {}, raised |-> FALSE,
                            sk |-> {}]
                      ELSE Walk_nomembership(rest, data, bd2, isTrain)

\* `for key in keys` from the current position up to the next `yield` or to
\* the end of the list.  order: the keys still to visit; data: the store;
\* bd: batch_data.  The result holds the store, batch_data, the keys left,
\* whether the walk stopped at a yield, and the keys evicted on the way.
RECURSIVE Walk(_, _, _, _)
Walk(order, data, bd, isTrain) ==
    IF order = <<>>
    THEN [data |-> data, bd |-> bd, left |-> {}, yielded |-> FALSE, ev |-> {},
          raised |-> FALSE, sk |-> {}]
    ELSE LET key  == Head(order)
             rest == Tail(order)
         IN  IF key \notin DOMAIN data
                THEN LET r == Walk(rest, data, bd, isTrain)
                     IN  [r EXCEPT !.sk = @ \cup {key}]
             ELSE IF data[key].train # isTrain
                THEN Walk(rest, data, bd, isTrain)
             ELSE IF continuous /\ ~ImageThere(data[key])
                THEN LET r == Walk(rest, Remove(data, key), bd, isTrain)
                     IN  [r EXCEPT !.ev = @ \cup {key}]
             ELSE LET bd2 == Append(bd, data[key])
                  IN  IF /\ Len(bd2) = BATCH_SIZE
                         /\ \A i \in 1..Len(bd2) : ImageThere(bd2[i])
                      THEN [data |-> data, bd |-> bd2, left |-> SeqToSet(rest),
                            yielded |-> TRUE, ev |-> {}, raised |-> FALSE,
                            sk |-> {}]
                      ELSE Walk(rest, data, bd2, isTrain)

\* The traversal of g is over and one of its batches was dropped at
\* `if img_arr is None: continue`: batch_data was full and was not emptied,
\* which happens at no other place
DecodeFailedIn(g) == gpc[g] = "end" /\ Len(batch_data[g]) >= BATCH_SIZE

\* The top of `while True`: in continuous mode the train generator looks for
\* new records (and sleeps while there are too few); then the generator
\* empties batch_data and snapshots the keys.
GenBegin(g) ==
    /\ gpc[g] \in {"new", "top", "end"}
    /\ \E coin \in Coins(recFiles, gen_records) :
         LET n0       == IF gpc[g] = "new" THEN Cardinality(DOMAIN gen_records)
                         ELSE num_records
             ingest   == isTrainSet(g) /\ continuous
             records  == gather_records(recFiles)
             rerun    == ingest /\ Len(records) > n0
             data     == IF rerun
                         THEN collate_records(records, gen_records, recFiles, coin)
                         ELSE gen_records
             raised   == rerun /\ collate_raises(records, DOMAIN gen_records,
                                                 recFiles)
             grew     == ~raised /\ rerun /\ Cardinality(DOMAIN data) > n0
             n1       == IF grew THEN Cardinality(DOMAIN data) ELSE n0
             wait     == ingest /\ n1 < min_records_to_train
         IN  /\ gen_records' = data
             /\ num_records' = IF isTrainSet(g) THEN n1 ELSE num_records
             /\ reset_best_end_of_epoch' = (reset_best_end_of_epoch \/ grew)
             /\ firstPart' = [k \in DOMAIN firstPart |->
                                IF firstPart[k] = "none" /\ k \in DOMAIN data
                                THEN PartName(data[k].train) ELSE firstPart[k]]
             /\ IF raised
                THEN \* the exception ends the generator
                     /\ gpc' = [gpc EXCEPT ![g] = "raised"]
                     /\ UNCHANGED <<keys, batch_data, snap, nYield, batched,
                                    evictedBy, cameBack, decodeFailed,
                                    skipped>>
                ELSE IF wait
                THEN /\ gpc' = [gpc EXCEPT ![g] = "top"]
                     /\ UNCHANGED <<keys, batch_data, snap, nYield, batched,
                                    evictedBy, cameBack, decodeFailed,
                                    skipped>>
                ELSE /\ gpc' = [gpc EXCEPT ![g] = "walk"]
                     /\ batch_data' = [batch_data EXCEPT ![g] = <<>>]
                     /\ keys' = [keys EXCEPT ![g] = DOMAIN data]
                     /\ snap' = [snap EXCEPT ![g] = DOMAIN data]
                     /\ nYield' = [nYield EXCEPT ![g] = 0]
                     /\ batched' = [batched EXCEPT ![g] = {}]
                     /\ cameBack' = [cameBack EXCEPT ![g] =
                                       evictedBy[g] \cap DOMAIN data # {}]
                     /\ evictedBy' = [evictedBy EXCEPT ![g] = {}]
                     /\ decodeFailed' = [decodeFailed EXCEPT ![g] =
                                           DecodeFailedIn(g)]
                     /\ skipped' = [skipped EXCEPT ![g] = {}]
    /\ UNCHANGED <<cacheVars, pruneVars, seqVars, continuous, min_records_to_train,
                   recFiles, imgFiles, fsEvents,
                   runVars, cpVars, cpHist>>

\* GenPull with batch_data carried over a yield (no `batch_data = []`)
GenPull_carry(g) ==
    /\ gpc[g] \in {"walk", "yield"}
    /\ \E order \in Orders(keys[g]) :
         LET r == Walk(order, gen_records, batch_data[g], isTrainSet(g))
         IN  /\ gen_records' = r.data
             /\ batch_data' = [batch_data EXCEPT ![g] = r.bd]
             /\ keys' = [keys EXCEPT ![g] = r.left]
             /\ gpc' = [gpc EXCEPT ![g] = IF r.raised THEN "raised"
                                        ELSE IF r.yielded THEN "yield"
                                        ELSE "end"]
             /\ nYield' = [nYield EXCEPT ![g] = @ + (IF r.yielded THEN 1 ELSE 0)]
             /\ evictedBy' = [evictedBy EXCEPT ![g] = @ \cup r.ev]
             /\ skipped' = [skipped EXCEPT ![g] = @ \cup r.sk]
    /\ batched' = [batched EXCEPT ![g] =
                     IF gpc[g] = "yield" THEN @ \cup KeysOfBatch(batch_data[g])
                     ELSE @]
    /\ UNCHANGED <<cacheVars, pruneVars, seqVars, continuous, min_records_to_train,
                   recFiles, imgFiles, fsEvents, num_records,
                   reset_best_end_of_epoch, snap, firstPart, cameBack,
                   decodeFailed,
                   runVars, cpVars, cpHist>>

\* One pull by the consumer: the generator runs from where it is suspended
\* (after the snapshot, or after `yield X, y`, where it empties batch_data)
\* to its next yield or to the end of the key list.
GenPull(g) ==
    /\ gpc[g] \in {"walk", "yield"}
    /\ \E order \in Orders(keys[g]) :
         LET bd0 == IF gpc[g] = "yield" THEN <<>> ELSE batch_data[g]
             r   == Walk(order, gen_records, bd0, isTrainSet(g))
         IN  /\ gen_records' = r.data
             /\ batch_data' = [batch_data EXCEPT ![g] = r.bd]
             /\ keys' = [keys EXCEPT ![g] = r.left]
             /\ gpc' = [gpc EXCEPT ![g] = IF r.raised THEN "raised"
                                        ELSE IF r.yielded THEN "yield"
                                        ELSE "end"]
             /\ nYield' = [nYield EXCEPT ![g] = @ + (IF r.yielded THEN 1 ELSE 0)]
             /\ evictedBy' = [evictedBy EXCEPT ![g] = @ \cup r.ev]
             /\ skipped' = [skipped EXCEPT ![g] = @ \cup r.sk]
    /\ batched' = [batched EXCEPT ![g] =
                     IF gpc[g] = "yield" THEN @ \cup KeysOfBatch(batch_data[g])
                     ELSE @]
    /\ UNCHANGED <<cacheVars, pruneVars, seqVars, continuous, min_records_to_train,
                   recFiles, imgFiles, fsEvents, num_records,
                   reset_best_end_of_epoch, snap, firstPart, cameBack,
                   decodeFailed,
                   runVars, cpVars, cpHist>>

----------------------------------------------------------------------------
(* The environment: the tub directories change while training runs *)

AddRecord(f) ==
    /\ fsEvents < MaxFsEvents
    /\ fsEvents' = fsEvents + 1
    /\ recFiles[f] = "none"
    /\ \E c \in {"ok", "bad"} : recFiles' = [recFiles EXCEPT ![f] = c]
    /\ UNCHANGED <<cacheVars, pruneVars, seqVars, continuous, min_records_to_train,
                   imgFiles, gen_records, genVars,
                   reset_best_end_of_epoch, histVars, runVars, cpVars, cpHist>>

\* A record file that is valid JSON but lacks a field (or holds an angle
\* float() rejects) appears in a tub
AddBrokenRecord(f) ==
    /\ fsEvents < MaxFsEvents
    /\ fsEvents' = fsEvents + 1
    /\ recFiles[f] = "none"
    /\ recFiles' = [recFiles EXCEPT ![f] = "nofield"]
    /\ UNCHANGED <<cacheVars, pruneVars, seqVars, continuous, min_records_to_train,
                   imgFiles, gen_records, genVars,
                   reset_best_end_of_epoch, histVars, runVars, cpVars, cpHist>>

DeleteImage(f) ==
    /\ fsEvents < MaxFsEvents
    /\ fsEvents' = fsEvents + 1
    /\ recFiles[f] # "none"
    /\ f \in imgFiles
    /\ imgFiles' = imgFiles \ {f}
    /\ UNCHANGED <<cacheVars, pruneVars, seqVars, continuous, min_records_to_train,
                   recFiles, gen_records, genVars,
                   reset_best_end_of_epoch, histVars, runVars, cpVars, cpHist>>

\* A record file is deleted; its image file stays where it is
DeleteRecord(f) ==
    /\ fsEvents < MaxFsEvents
    /\ fsEvents' = fsEvents + 1
    /\ recFiles[f] # "none"
    /\ recFiles' = [recFiles EXCEPT ![f] = "none"]
    /\ UNCHANGED <<cacheVars, pruneVars, seqVars, continuous, min_records_to_train,
                   imgFiles, gen_records, genVars,
                   reset_best_end_of_epoch, histVars, runVars, cpVars, cpHist>>

----------------------------------------------------------------------------
(* The checkpoint callback: MyCPCallback(keras.callbacks.ModelCheckpoint) *)

\* save_json_and_weights(model, filename): raises before anything is written
\* when the name does not end in ".h5"; otherwise writes both files
save_json_and_weights(json, weights) ==
    IF ~filename_h5
    THEN [raised |-> TRUE,  json |-> json, weights |-> weights]
    ELSE [raised |-> FALSE, json |-> TRUE, weights |-> TRUE]

\* cfg.SEND_BEST_MODEL_TO_PI, os.name and the state of the link to the pi:
\*   "local"       SEND_BEST_MODEL_TO_PI is off
\*   "scp_fail"    not on windows, the scp commands fail
\*   "sftp_ok"     on windows, paramiko is installed, the transfer succeeds
\*   "sftp_fail"   on windows, paramiko is installed, the transfer fails
\*   "no_paramiko" on windows, paramiko is not installed
HookEnvs == {"local", "scp_fail", "sftp_ok", "sftp_fail", "no_paramiko"}

\* on_best_model(cfg, model, model_filename), called when the model file has
\* mtime `mtime`: the two-file export, then the transfer to the pi.  The
\* result of os.system is only printed; an exception of the sftp transfer is
\* caught; the failed import of paramiko is raised again.
on_best_model(json, weights, pi, mtime) ==
    LET s == save_json_and_weights(json, weights)
    IN  IF s.raised
        THEN [raised |-> TRUE, json |-> s.json, weights |-> s.weights, pi |-> pi]
        ELSE CASE hookEnv = "local" ->
                    [raised |-> FALSE, json |-> s.json, weights |-> s.weights,
                     pi |-> pi]
               [] hookEnv = "scp_fail" ->
                    [raised |-> FALSE, json |-> s.json, weights |-> s.weights,
                     pi |-> pi]
               [] hookEnv = "sftp_ok" ->
                    [raised |-> FALSE, json |-> s.json, weights |-> s.weights,
                     pi |-> mtime]
               [] hookEnv = "sftp_fail" ->
                    [raised |-> FALSE, json |-> s.json, weights |-> s.weights,
                     pi |-> pi]
               [] hookEnv = "no_paramiko" ->
                    [raised |-> TRUE, json |-> s.json, weights |-> s.weights,
                     pi |-> pi]

\* reset_best(): called by the train generator when the store has grown
ResetBest ==
    /\ rpc = "fitting"
    /\ continuous
    /\ epoch < MaxEpochs
    /\ callsInEpoch < MaxCalls
    /\ reset_best_end_of_epoch' = TRUE
    /\ resetCalled' = resetCalled \cup {epoch + 1}
    /\ callsInEpoch' = callsInEpoch + 1
    /\ UNCHANGED <<cacheVars, pruneVars, seqVars, continuous, min_records_to_train,
                   fsVars, fsEvents, gen_records, genVars, histVars,
                   runVars, cpVars, lossHist, savedEpochs>>

\* on_epoch_end with the pending reset applied before the comparison
EpochEnd_resetfirst(loss) ==
    /\ rpc = "fitting"
    /\ epoch < MaxEpochs
    /\ LET best0    == IF reset_best_end_of_epoch THEN Inf ELSE best
           improved == loss < best0
           best1    == IF improved THEN loss ELSE best0
           file1    == IF improved THEN epoch + 1 ELSE modelFile
           send     == /\ file1 # 0
                       /\ \/ last_modified_time = 0
                          \/ last_modified_time < file1
           r        == IF send
                       THEN on_best_model(jsonFile, weightsFile, piFile, file1)
                       ELSE [raised |-> FALSE, json |-> jsonFile,
                             weights |-> weightsFile, pi |-> piFile]
       IN  /\ epoch' = epoch + 1
           /\ lossHist' = Append(lossHist, loss)
           /\ savedEpochs' = IF improved THEN savedEpochs \cup {epoch + 1}
                             ELSE savedEpochs
           /\ modelFile' = file1
           /\ last_modified_time' = IF send THEN file1 ELSE last_modified_time
           /\ jsonFile' = r.json
           /\ weightsFile' = r.weights
           /\ piFile' = r.pi
           /\ best' = best1
           /\ IF r.raised
              THEN /\ rpc' = "failed"
                   /\ UNCHANGED <<reset_best_end_of_epoch, callsInEpoch>>
              ELSE /\ rpc' = rpc
                   /\ reset_best_end_of_epoch' = FALSE
                   /\ callsInEpoch' = 0
    /\ UNCHANGED <<cacheVars, pruneVars, seqVars, continuous, min_records_to_train,
                   fsVars, fsEvents, gen_records, genVars, histVars,
                   mode, look_ahead, steps_per_epoch, fitCalls, sequences,
                   train_data, val_data, filename_h5, hookEnv, resetCalled>>

\* on_epoch_end that sets best to Inf but leaves the pending flag set
EpochEnd_keepflag(loss) ==
    /\ rpc = "fitting"
    /\ epoch < MaxEpochs
    /\ LET improved == loss < best
           best1    == IF improved THEN loss ELSE best
           file1    == IF improved THEN epoch + 1 ELSE modelFile
           send     == /\ file1 # 0
                       /\ \/ last_modified_time = 0
                          \/ last_modified_time < file1
           r        == IF send
                       THEN on_best_model(jsonFile, weightsFile, piFile, file1)
                       ELSE [raised |-> FALSE, json |-> jsonFile,
                             weights |-> weightsFile, pi |-> piFile]
       IN  /\ epoch' = epoch + 1
           /\ lossHist' = Append(lossHist, loss)
           /\ savedEpochs' = IF improved THEN savedEpochs \cup {epoch + 1}
                             ELSE savedEpochs
           /\ modelFile' = file1
           /\ last_modified_time' = IF send THEN file1 ELSE last_modified_time
           /\ jsonFile' = r.json
           /\ weightsFile' = r.weights
           /\ piFile' = r.pi
           /\ IF r.raised
              THEN /\ rpc' = "failed"
                   /\ best' = best1
                   /\ UNCHANGED <<reset_best_end_of_epoch, callsInEpoch>>
              ELSE /\ rpc' = rpc
                   /\ best' = IF reset_best_end_of_epoch THEN Inf ELSE best1
                   /\ UNCHANGED reset_best_end_of_epoch
                   /\ callsInEpoch' = 0
    /\ UNCHANGED <<cacheVars, pruneVars, seqVars, continuous, min_records_to_train,
                   fsVars, fsEvents, gen_records, genVars, histVars,
                   mode, look_ahead, steps_per_epoch, fitCalls, sequences,
                   train_data, val_data, filename_h5, hookEnv, resetCalled>>

\* MyCPCallback.on_epoch_end(epoch, logs) with logs['val_loss'] = loss, at the
\* end of an epoch of fit_generator:
\*   1. ModelCheckpoint.on_epoch_end (monitor='val_loss', save_best_only=True,
\*      mode='min'): when loss < best, best = loss and the model is saved to
\*      model_path;
\*   2. when the file is there and is newer than last_modified_time,
\*      send_model_cb = on_best_model; an exception it raises leaves
\*      on_epoch_end and ends fit_generator;
\*   3. a pending reset is applied: the flag is cleared and best = np.Inf.
EpochEnd(loss) ==
    /\ rpc = "fitting"
    /\ epoch < MaxEpochs
    /\ LET improved == loss < best
           best1    == IF improved THEN loss ELSE best
           file1    == IF improved THEN epoch + 1 ELSE modelFile
           send     == /\ file1 # 0
                       /\ \/ last_modified_time = 0
                          \/ last_modified_time < file1
           r        == IF send
                       THEN on_best_model(jsonFile, weightsFile, piFile, file1)
                       ELSE [raised |-> FALSE, json |-> jsonFile,
                             weights |-> weightsFile, pi |-> piFile]
       IN  /\ epoch' = epoch + 1
           /\ lossHist' = Append(lossHist, loss)
           /\ savedEpochs' = IF improved THEN savedEpochs \cup {epoch + 1}
                             ELSE savedEpochs
           /\ modelFile' = file1
           /\ last_modified_time' = IF send THEN file1 ELSE last_modified_time
           /\ jsonFile' = r.json
           /\ weightsFile' = r.weights
           /\ piFile' = r.pi
           /\ IF r.raised
              THEN /\ rpc' = "failed"
                   /\ best' = best1
                   /\ UNCHANGED <<reset_best_end_of_epoch, callsInEpoch>>
              ELSE /\ rpc' = rpc
                   /\ best' = IF reset_best_end_of_epoch THEN Inf ELSE best1
                   /\ reset_best_end_of_epoch' = FALSE
                   /\ callsInEpoch' = 0
    /\ UNCHANGED <<cacheVars, pruneVars, seqVars, continuous, min_records_to_train,
                   fsVars, fsEvents, gen_records, genVars, histVars,
                   mode, look_ahead, steps_per_epoch, fitCalls, sequences,
                   train_data, val_data, filename_h5, hookEnv, resetCalled>>

----------------------------------------------------------------------------
(* The image of a sample, decoded, augmented and cached *)

\* The outcomes the random transformations of augment_image can have
AugDraws == 1..MaxAug

\* load_scaled_image_arr(filename, cfg): the pixels of the file, None when
\* the file cannot be read
load_scaled_image_arr(rec) ==
    IF ImageThere(rec) THEN [frame |-> ImgOf(rec), aug |-> 0] ELSE NoImage

\* augment_image(img_arr) with the random draw a
augment_image(img, a) == [img EXCEPT !.aug = a]

\* Decode, then augment if enabled: what a use of the sample without any
\* cache produces
FreshImage(rec, a) ==
    LET img == load_scaled_image_arr(rec)
    IN  IF img = NoImage THEN NoImage
        ELSE IF aug THEN augment_image(img, a) ELSE img

\* `if record['img_data'] is None: ... else: img_arr = record['img_data']`:
\* the img_arr of one record of the batch and what the record caches after
GetImage(cached, rec, a) ==
    IF cached = NoImage
    THEN LET img == FreshImage(rec, a)
         IN  [img   |-> img,
              cache |-> IF img # NoImage /\ CACHE_IMAGES THEN img ELSE cached]
    ELSE [img |-> cached, cache |-> cached]

\* A generator materialises a batch that holds the sample under key k; a is
\* the draw augment_image would make
UseSample(k, a) ==
    /\ rpc = "fitting"
    /\ k \in DOMAIN gen_records
    /\ LET r == GetImage(img_data[k], gen_records[k], a)
       IN  /\ img_data' = [img_data EXCEPT ![k] = r.cache]
           /\ placed' = [key |-> k, img |-> r.img]
           /\ fresh' = FreshImage(gen_records[k], a)
    /\ UNCHANGED <<CACHE_IMAGES, aug, pruneVars, seqVars, continuous,
                   min_records_to_train, fsVars, fsEvents, gen_records,
                   genVars, reset_best_end_of_epoch, histVars, runVars,
                   cpVars, cpHist>>

----------------------------------------------------------------------------
(* The pruning loop of go_train *)

\* The Conv2D channels a model can have before pruning
ChannelCounts == {10, 40, 100}

\* The values of cfg.PRUNE_PERCENT_PER_ITERATION and cfg.PRUNE_PERCENT_TARGET
\* studied.  The code computes with floats; on these values and the channel
\* counts reached the float results equal the integer ones below.
PerIteration == {5, 25}
PercentTargets == {20, 50, 75}

\* prune(): n_channels_delete = int(math.floor(percent_pruning / 100 *
\* total_channels)), with total_channels = get_total_channels(model)
n_channels_delete(total_channels, percent) == (percent * total_channels) \div 100

\* go_train: cnn_channels = get_total_channels(kl.model); target_channels =
\* int(cnn_channels * (1 - PRUNE_PERCENT_TARGET / 100)); prune_loss = 0
PruneBegin ==
    /\ ppc = "begin"
    /\ ppc' = "loop"
    /\ cnn_channels' = kl_channels
    /\ target_channels' = (kl_channels * (100 - percent_target)) \div 100
    /\ prune_loss' = 0
    /\ UNCHANGED <<cacheVars, seqVars, continuous, min_records_to_train, fsVars,
                   fsEvents,
                   gen_records, genVars,
                   reset_best_end_of_epoch, histVars, runVars, cpVars, cpHist,
                   kl_channels, percent_pruning, percent_target, max_val_loss,
                   pruneSaved, orig_channels, pruneIters>>

\* One pass of `while cnn_channels > target_channels:`; loss is the min
\* val_loss of the pass's fit_generator (run with early_stop only)
PruneIteration(loss) ==
    /\ ppc = "loop"
    /\ cnn_channels > target_channels
    /\ LET channels_deleted == n_channels_delete(kl_channels, percent_pruning)
       IN  /\ reset_best_end_of_epoch' = TRUE       \* save_best.reset_best()
           /\ cnn_channels' = cnn_channels - channels_deleted
           /\ kl_channels' = kl_channels - channels_deleted   \* kl.model = model
           /\ prune_loss' = loss
           /\ IF loss < max_val_loss
              THEN /\ pruneSaved' = pruneSaved \cup {cnn_channels'}
                   /\ ppc' = "loop"
              ELSE /\ pruneSaved' = pruneSaved
                   /\ ppc' = "done"                  \* break
    /\ pruneIters' = IF pruneIters < MaxPruneIters THEN pruneIters + 1
                     ELSE pruneIters
    /\ UNCHANGED <<cacheVars, seqVars, continuous, min_records_to_train, fsVars,
                   fsEvents,
                   gen_records, genVars,
                   histVars, runVars, cpVars, cpHist,
                   target_channels, percent_pruning, percent_target,
                   max_val_loss, orig_channels>>

\* The loop condition fails: 'pruning stopped at ...'
PruneEnd ==
    /\ ppc = "loop"
    /\ ~(cnn_channels > target_channels)
    /\ ppc' = "done"
    /\ UNCHANGED <<cacheVars, seqVars, continuous, min_records_to_train, fsVars,
                   fsEvents,
                   gen_records, genVars,
                   reset_best_end_of_epoch, histVars, runVars, cpVars, cpHist,
                   kl_channels, cnn_channels, target_channels, percent_pruning,
                   percent_target, max_val_loss, prune_loss, pruneSaved,
                   orig_channels, pruneIters>>

----------------------------------------------------------------------------
(* Starting a run: train(), sequence_train() and go_train() up to the call of
   fit_generator *)

AllKeys(S) == {make_key(f) : f \in S}

NumTrain(store) == Cardinality({k \in DOMAIN store : store[k].train})

\* go_train with `steps_per_epoch < 1` as its check
TooLittleData_lt1(steps) == steps < 1

\* go_train: if steps_per_epoch < 2: raise Exception("Too little data ...")
TooLittleData(steps) == steps < 2

\* go_train(..., steps_per_epoch, ...) up to its call of fit_generator
go_train(steps) ==
    IF TooLittleData(steps)
    THEN /\ rpc' = "failed"
         /\ fitCalls' = fitCalls
    ELSE /\ rpc' = "fitting"
         /\ fitCalls' = fitCalls + 1

\* train(cfg, tub_names, model_name, ...)
train ==
    /\ rpc = "start"
    /\ mode = "train"
    /\ \E coin \in Coins(recFiles, EmptyStore) :
         LET data      == collate_records(gather_records(recFiles), EmptyStore,
                                          recFiles, coin)
             num_train == NumTrain(data)
             steps     == IF ~continuous THEN num_train \div BATCH_SIZE ELSE 100
         IN  /\ gen_records' = data
             /\ IF collate_raises(gather_records(recFiles), {}, recFiles)
                THEN /\ rpc' = "ingest_raised"
                     /\ UNCHANGED <<steps_per_epoch, fitCalls>>
                ELSE /\ steps_per_epoch' = steps
                     /\ go_train(steps)
    /\ UNCHANGED <<cacheVars, pruneVars, seqVars, continuous, min_records_to_train,
                   fsVars, fsEvents, genVars, histVars,
                   reset_best_end_of_epoch, mode, look_ahead, sequences,
                   train_data, val_data, cpVars, cpHist>>

SeqSample(f) == [tub_path |-> f.tub_path, index |-> f.index]

\* sequence_train: for record_path in records: ... gen_records[key] = sample
\* (no try around open, json.load, json_data[...] and float(...): the loop ends
\* at the first record that is not "ok")
RECURSIVE seq_collate(_, _, _)
seq_collate(records, store, files) ==
    IF records = <<>> THEN store
    ELSE LET f == Head(records)
         IN  IF files[f] # "ok" THEN store
             ELSE seq_collate(Tail(records),
                              Put(store, make_key(f), SeqSample(f)), files)

\* The record loop of sequence_train leaves by an exception
seq_raises(records, files) ==
    \E i \in 1..Len(records) : files[records[i]] # "ok"

target_len == IF look_ahead THEN SEQUENCE_LENGTH * 2 ELSE SEQUENCE_LENGTH

\* for i in range(target_len): key = make_next_key(sample, i); the samples
\* found under the keys, from offset i on
RECURSIVE build_seq(_, _, _)
build_seq(sample, store, i) ==
    IF i >= target_len THEN <<>>
    ELSE LET key == make_next_key(sample, i)
         IN  (IF key \in DOMAIN store THEN <<store[key]>> ELSE <<>>)
             \o build_seq(sample, store, i + 1)

\* for k, sample in gen_records.items(): the windows of full length.  Two
\* entries never give the same window (a window starts with its own entry),
\* so the list `sequences` is held as a set.
collate_sequences(store) ==
    {w \in {build_seq(store[k], store, 0) : k \in DOMAIN store} :
        Len(w) = target_len}

\* sklearn's train_test_split(test_size = 1 - TRAIN_TEST_SPLIT):
\* n_test = ceil(test_size * n)
NTest(n) == (n * (100 - TrainSplitPct) + 99) \div 100

\* sequence_train(cfg, tub_names, model_name, ...)
sequence_train ==
    /\ rpc = "start"
    /\ mode = "sequence"
    /\ LET records == gather_records(recFiles)
           data    == seq_collate(records, EmptyStore, recFiles)
           seqs    == collate_sequences(data)
           n       == Cardinality(seqs)
           n_train == n - NTest(n)
       IN  /\ gen_records' = data
           /\ IF seq_raises(records, recFiles)
              THEN /\ rpc' = "ingest_raised"
                   /\ UNCHANGED <<sequences, train_data, val_data,
                                  steps_per_epoch, fitCalls>>
              ELSE IF n_train = 0
              THEN \* train_test_split raises ValueError
                   /\ sequences' = seqs
                   /\ train_data' = {}
                   /\ val_data' = {}
                   /\ steps_per_epoch' = steps_per_epoch
                   /\ rpc' = "failed"
                   /\ fitCalls' = fitCalls
              ELSE \E tr \in {t \in SUBSET seqs : Cardinality(t) = n_train} :
                   /\ sequences' = seqs
                   /\ train_data' = tr
                   /\ val_data' = seqs \ tr
                   /\ steps_per_epoch' = n_train \div BATCH_SIZE
                   /\ IF n_train \div BATCH_SIZE < 2
                      THEN /\ rpc' = "failed"
                           /\ fitCalls' = fitCalls
                      ELSE go_train(n_train \div BATCH_SIZE)
    /\ UNCHANGED <<cacheVars, pruneVars, seqVars, continuous, min_records_to_train,
                   fsVars, fsEvents, genVars, histVars,
                   reset_best_end_of_epoch, mode, look_ahead, cpVars, cpHist>>

\* The steering angles and throttles a record can hold (none of them 0, the
\* filler value)
Angles == {-1, 1}
Throttles == {1, 2}

\* The windows sequence_train can build: target_len records of one tub with
\* consecutive indices, each with its user/angle and user/throttle
Windows ==
    {[i \in 1..target_len |->
         [tub_path |-> p, index |-> FirstIndex + i - 1,
          angle |-> c[i][1], throttle |-> c[i][2]]] :
       p \in SeqToSet(TubPaths),
       c \in [1..target_len -> Angles \X Throttles]}

\* if opt['look_ahead']: iTargetOutput = cfg.SEQUENCE_LENGTH, in place of
\* cfg.SEQUENCE_LENGTH - 1
iTargetOutput_L == IF look_ahead THEN SEQUENCE_LENGTH ELSE -1

\* iTargetOutput = -1; if opt['look_ahead']: iTargetOutput =
\* cfg.SEQUENCE_LENGTH - 1
iTargetOutput == IF look_ahead THEN SEQUENCE_LENGTH - 1 ELSE -1

\* num_images_target = len(seq); if opt['look_ahead']: num_images_target =
\* cfg.SEQUENCE_LENGTH
num_images_target(s) == IF look_ahead THEN SEQUENCE_LENGTH ELSE Len(s)

\* `for iRec, record in enumerate(seq)` from record iRec (counted from 0) on;
\* ex holds inputs_img, vec_in and vec_out.  The loop breaks at an image that
\* does not decode.
RECURSIVE seq_records(_, _, _)
seq_records(s, iRec, ex) ==
    IF iRec >= Len(s) THEN ex
    ELSE LET record == s[iRec + 1]
             wanted == Len(ex.inputs_img) < num_images_target(s)
         IN  IF wanted /\ ~ImageThere(record) THEN ex       \* break
             ELSE seq_records(s, iRec + 1,
                    [inputs_img |-> IF wanted
                                    THEN Append(ex.inputs_img, ImgOf(record))
                                    ELSE ex.inputs_img,
                     vec_in     |-> IF iRec >= iTargetOutput THEN ex.vec_in
                                    ELSE ex.vec_in \o <<0, 0>>,
                     vec_out    |-> IF iRec >= iTargetOutput
                                    THEN ex.vec_out
                                         \o <<record.angle, record.throttle>>
                                    ELSE ex.vec_out])

\* seq[iTargetOutput]['target_output'], a negative index counting from the end
target_output(s) ==
    LET r == s[IF iTargetOutput < 0 THEN Len(s) + 1 + iTargetOutput
               ELSE iTargetOutput + 1]
    IN  <<r.angle, r.throttle>>

\* The body of `for seq in batch_data`: what goes into b_inputs_img, b_vec_in
\* and b_labels for one window
seq_example(s) ==
    LET ex == seq_records(s, 0, [inputs_img |-> <<>>, vec_in |-> <<>>,
                                 vec_out |-> <<>>])
    IN  [inputs_img |-> ex.inputs_img,
         vec_in     |-> ex.vec_in,
         label_vec  |-> IF look_ahead THEN ex.vec_out ELSE target_output(s)]

\* The sequence generator makes the example of a window of its batch
MakeExample ==
    /\ rpc = "fitting"
    /\ mode = "sequence"
    /\ seq # <<>>
    /\ example = NoExample
    /\ example' = seq_example(seq)
    /\ UNCHANGED <<cacheVars, pruneVars, seq, continuous, min_records_to_train,
                   fsVars,
                   fsEvents, gen_records, genVars, reset_best_end_of_epoch,
                   histVars, runVars, cpVars, cpHist>>

\* The end of the first epoch of the run
FirstEpochEnd(loss) == epoch = 0 /\ EpochEnd(loss)

----------------------------------------------------------------------------
(* Initial states *)

\* The generators as constructed, not yet pulled
GeneratorsNew ==
    /\ gpc = [g \in Gens |-> "new"]
    /\ keys = [g \in Gens |-> {}]
    /\ batch_data = [g \in Gens |-> <<>>]
    /\ num_records = 0
    /\ snap = [g \in Gens |-> {}]
    /\ nYield = [g \in Gens |-> 0]
    /\ batched = [g \in Gens |-> {}]
    /\ evictedBy = [g \in Gens |-> {}]
    /\ cameBack = [g \in Gens |-> FALSE]
    /\ decodeFailed = [g \in Gens |-> FALSE]
    /\ skipped = [g \in Gens |-> {}]

\* MyCPCallback.__init__: best = np.Inf, no reset pending, nothing written
CallbackNew ==
    /\ reset_best_end_of_epoch = FALSE
    /\ best = Inf
    /\ last_modified_time = 0
    /\ modelFile = 0
    /\ jsonFile = FALSE
    /\ weightsFile = FALSE
    /\ epoch = 0
    /\ piFile = 0
    /\ lossHist = <<>>
    /\ resetCalled = {}
    /\ callsInEpoch = 0
    /\ savedEpochs = {}

\* go_train is not in its pruning loop, no sequence generator is at work
PruneOff ==
    /\ seq = <<>>
    /\ example = NoExample
    /\ CACHE_IMAGES = FALSE
    /\ aug = FALSE
    /\ img_data = EmptyStore
    /\ placed = NoUse
    /\ fresh = NoImage
    /\ ppc = "off"
    /\ kl_channels = 0
    /\ cnn_channels = 0
    /\ target_channels = 0
    /\ percent_pruning = 0
    /\ percent_target = 0
    /\ max_val_loss = 0
    /\ prune_loss = 0
    /\ pruneSaved = {}
    /\ orig_channels = 0
    /\ pruneIters = 0

\* train() has collated the records there were, built the callback and the
\* generators, and fit_generator is running.  The generators are studied over
\* every store, the small ones included.
InitStore ==
    /\ continuous \in BOOLEAN
    /\ recFiles \in [Frames -> {"none", "ok", "bad"}]
    /\ imgFiles = Frames
    /\ \E coin \in Coins(recFiles, EmptyStore) :
         gen_records = collate_records(gather_records(recFiles), EmptyStore,
                                       recFiles, coin)
    /\ fsEvents = 0
    /\ GeneratorsNew
    /\ firstPart = [k \in AllKeys(Frames) |->
                      IF k \in DOMAIN gen_records
                      THEN PartName(gen_records[k].train) ELSE "none"]
    /\ mode = "train"
    /\ look_ahead = FALSE
    /\ rpc = "fitting"
    /\ steps_per_epoch = (IF ~continuous THEN NumTrain(gen_records) \div BATCH_SIZE
                          ELSE 100)
    /\ fitCalls = 1
    /\ sequences = {}
    /\ train_data = {}
    /\ val_data = {}
    /\ filename_h5 = TRUE
    /\ hookEnv = "local"
    /\ CallbackNew
    /\ PruneOff

Init == InitStore /\ min_records_to_train = MinRecords

\* fit_generator has just been called with the callback save_best
InitCP ==
    /\ continuous \in BOOLEAN
    /\ filename_h5 \in BOOLEAN
    /\ hookEnv \in HookEnvs
    /\ recFiles = [f \in Frames |-> "none"]
    /\ imgFiles = Frames
    /\ gen_records = EmptyStore
    /\ fsEvents = 0
    /\ GeneratorsNew
    /\ firstPart = [k \in AllKeys(Frames) |-> "none"]
    /\ mode = "train"
    /\ look_ahead = FALSE
    /\ rpc = "fitting"
    /\ steps_per_epoch = (IF ~continuous THEN 2 ELSE 100)
    /\ fitCalls = 1
    /\ sequences = {}
    /\ train_data = {}
    /\ val_data = {}
    /\ CallbackNew
    /\ PruneOff
    /\ min_records_to_train = MinRecords

\* train() or sequence_train() has just been called
InitRun ==
    /\ mode \in {"train", "sequence"}
    /\ continuous \in BOOLEAN
    /\ look_ahead \in BOOLEAN
    /\ mode = "sequence" => ~continuous       \* assert(not continuous)
    /\ mode = "train" => ~look_ahead
    /\ recFiles \in [RunFrames -> {"none", "ok"}]
    /\ imgFiles = RunFrames
    /\ gen_records = EmptyStore
    /\ fsEvents = 0
    /\ GeneratorsNew
    /\ firstPart = [k \in AllKeys(RunFrames) |-> "none"]
    /\ rpc = "start"
    /\ steps_per_epoch = 0
    /\ fitCalls = 0
    /\ sequences = {}
    /\ train_data = {}
    /\ val_data = {}
    /\ filename_h5 = TRUE
    /\ hookEnv = "local"
    /\ CallbackNew
    /\ PruneOff
    /\ min_records_to_train = MinRecords

Next ==
    \/ \E g \in Gens : GenBegin(g)
    \/ \E g \in Gens : GenPull(g)
    \/ \E f \in Frames : AddRecord(f)
    \/ \E f \in Frames : DeleteImage(f)
    \/ \E f \in Frames : DeleteRecord(f)

Spec == Init /\ [][Next]_vars

\* The directories only grow: records are added, no image is deleted
NextGrow ==
    \/ \E g \in Gens : GenBegin(g)
    \/ \E g \in Gens : GenPull(g)
    \/ \E f \in Frames : AddRecord(f)

SpecGrow == Init /\ [][NextGrow]_vars

\* Training over a fixed store (not continuous) while image files go away
InitDecode == Init /\ ~continuous

NextDecode ==
    \/ \E g \in Gens : GenBegin(g)
    \/ \E g \in Gens : GenPull(g)
    \/ \E f \in Frames : DeleteImage(f)

SpecDecode == InitDecode /\ [][NextDecode]_vars

\* fit_generator has returned after one epoch with val_loss `full`, with
\* cfg.PRUNE_CNN set: go_train has computed max_val_loss and starts pruning
InitPrune ==
    /\ continuous = FALSE
    /\ filename_h5 = TRUE
    /\ hookEnv = "local"
    /\ recFiles = [f \in Frames |-> "none"]
    /\ imgFiles = Frames
    /\ gen_records = EmptyStore
    /\ fsEvents = 0
    /\ GeneratorsNew
    /\ firstPart = [k \in AllKeys(Frames) |-> "none"]
    /\ mode = "train"
    /\ look_ahead = FALSE
    /\ rpc = "fitted"
    /\ steps_per_epoch = 2
    /\ fitCalls = 1
    /\ sequences = {}
    /\ train_data = {}
    /\ val_data = {}
    /\ \E full \in Losses :
         /\ lossHist = <<full>>
         /\ best = full
         /\ max_val_loss = full + PRUNE_VAL_LOSS_DEGRADATION_LIMIT
    /\ reset_best_end_of_epoch = FALSE
    /\ last_modified_time = 1
    /\ modelFile = 1
    /\ jsonFile = TRUE
    /\ weightsFile = TRUE
    /\ epoch = 1
    /\ piFile = 0
    /\ resetCalled = {}
    /\ callsInEpoch = 0
    /\ savedEpochs = {1}
    /\ min_records_to_train = MinRecords
    /\ seq = <<>>
    /\ example = NoExample
    /\ CACHE_IMAGES = FALSE
    /\ aug = FALSE
    /\ img_data = EmptyStore
    /\ placed = NoUse
    /\ fresh = NoImage
    /\ ppc = "begin"
    /\ kl_channels \in ChannelCounts
    /\ orig_channels = kl_channels
    /\ percent_pruning \in PerIteration
    /\ percent_target \in PercentTargets
    /\ cnn_channels = 0
    /\ target_channels = 0
    /\ prune_loss = 0
    /\ pruneSaved = {}
    /\ pruneIters = 0

NextPrune ==
    \/ PruneBegin
    \/ \E loss \in Losses : PruneIteration(loss)
    \/ PruneEnd

\* go_train runs on its own: the loop goes on while it can
FairPrune ==
    /\ WF_vars(PruneBegin)
    /\ WF_vars(\E loss \in Losses : PruneIteration(loss))
    /\ WF_vars(PruneEnd)

SpecPrune == InitPrune /\ [][NextPrune]_vars /\ FairPrune

\* Continuous training seen from the train generator, with a threshold above
\* the batch size, while image files are deleted
InitWait ==
    /\ InitStore
    /\ continuous
    /\ min_records_to_train = MinRecords + 1

NextWait ==
    \/ GenBegin("train")
    \/ GenPull("train")
    \/ \E f \in Frames : DeleteImage(f)

SpecWait == InitWait /\ [][NextWait]_vars

\* The generator of sequence_train has taken a window from its batch
InitExample ==
    /\ mode = "sequence"
    /\ continuous = FALSE
    /\ look_ahead \in BOOLEAN
    /\ recFiles = [f \in RunFrames |-> "ok"]
    /\ imgFiles = {[tub_path |-> p, index |-> i] :
                      p \in SeqToSet(TubPaths),
                      i \in FirstIndex..(FirstIndex + 2 * SEQUENCE_LENGTH)}
    /\ gen_records = EmptyStore
    /\ fsEvents = 0
    /\ GeneratorsNew
    /\ firstPart = [k \in AllKeys(RunFrames) |-> "none"]
    /\ rpc = "fitting"
    /\ steps_per_epoch = 2
    /\ fitCalls = 1
    /\ sequences = {}
    /\ train_data = {}
    /\ val_data = {}
    /\ filename_h5 = TRUE
    /\ hookEnv = "local"
    /\ CallbackNew
    /\ min_records_to_train = MinRecords
    /\ seq \in Windows
    /\ example = NoExample
    /\ CACHE_IMAGES = FALSE
    /\ aug = FALSE
    /\ img_data = EmptyStore
    /\ placed = NoUse
    /\ fresh = NoImage
    /\ ppc = "off"
    /\ kl_channels = 0
    /\ cnn_channels = 0
    /\ target_channels = 0
    /\ percent_pruning = 0
    /\ percent_target = 0
    /\ max_val_loss = 0
    /\ prune_loss = 0
    /\ pruneSaved = {}
    /\ orig_channels = 0
    /\ pruneIters = 0

NextExample == MakeExample

SpecExample == InitExample /\ [][NextExample]_vars

\* Training over a fixed store of readable records, with or without the
\* image cache and augmentation, while image files go away
InitCache ==
    /\ continuous = FALSE
    /\ recFiles = [f \in Frames |-> "ok"]
    /\ imgFiles = Frames
    /\ \E coin \in Coins(recFiles, EmptyStore) :
         gen_records = collate_records(gather_records(recFiles), EmptyStore,
                                       recFiles, coin)
    /\ fsEvents = 0
    /\ GeneratorsNew
    /\ firstPart = [k \in AllKeys(Frames) |->
                      IF k \in DOMAIN gen_records
                      THEN PartName(gen_records[k].train) ELSE "none"]
    /\ mode = "train"
    /\ look_ahead = FALSE
    /\ rpc = "fitting"
    /\ steps_per_epoch = NumTrain(gen_records) \div BATCH_SIZE
    /\ fitCalls = 1
    /\ sequences = {}
    /\ train_data = {}
    /\ val_data = {}
    /\ filename_h5 = TRUE
    /\ hookEnv = "local"
    /\ CallbackNew
    /\ min_records_to_train = MinRecords
    /\ seq = <<>>
    /\ example = NoExample
    /\ CACHE_IMAGES \in BOOLEAN
    /\ aug \in BOOLEAN
    /\ img_data = [k \in DOMAIN gen_records |-> NoImage]   \* img_data = None
    /\ placed = NoUse
    /\ fresh = NoImage
    /\ ppc = "off"
    /\ kl_channels = 0
    /\ cnn_channels = 0
    /\ target_channels = 0
    /\ percent_pruning = 0
    /\ percent_target = 0
    /\ max_val_loss = 0
    /\ prune_loss = 0
    /\ pruneSaved = {}
    /\ orig_channels = 0
    /\ pruneIters = 0

NextCache ==
    \/ \E k \in AllKeys(Frames) : \E a \in AugDraws : UseSample(k, a)
    \/ \E f \in Frames : DeleteImage(f)

SpecCache == InitCache /\ [][NextCache]_vars

\* Continuous training over tubs whose records were all ingested at the
\* start, the coin having put the first tub in the train partition and the
\* second in the validation partition, with both generators resumed in any
\* order while image files are deleted
InitConc ==
    /\ Init
    /\ continuous
    /\ \A f \in Frames : recFiles[f] = "ok"
    /\ \A k \in DOMAIN gen_records :
          gen_records[k].train = (gen_records[k].tub_path = TubPaths[1])

NextConc ==
    \/ \E g \in Gens : GenBegin(g)
    \/ \E g \in Gens : GenPull(g)
    \/ \E f \in Frames : DeleteImage(f)

SpecConc == InitConc /\ [][NextConc]_vars

\* Continuous training while the car goes on recording: record files, sound
\* or lacking a field, appear while the generators are pulled
InitServe ==
    /\ Init
    /\ continuous
    /\ \A f \in Frames : recFiles[f] # "bad"

NextServe ==
    \/ \E g \in Gens : GenBegin(g)
    \/ \E g \in Gens : GenPull(g)
    \/ \E f \in Frames : AddRecord(f)
    \/ \E f \in Frames : AddBrokenRecord(f)

SpecServe == InitServe /\ [][NextServe]_vars

\* The checkpoint callback over the epochs of one fit_generator call
NextCP ==
    \/ ResetBest
    \/ \E loss \in Losses : EpochEnd(loss)

SpecCP == InitCP /\ [][NextCP]_vars

\* The start of a run, up to the end of its first epoch
NextRun ==
    \/ train
    \/ sequence_train
    \/ \E loss \in Losses : FirstEpochEnd(loss)

SpecRun == InitRun /\ [][NextRun]_vars

\* The ingestion of a run over directories that hold faulty record files
InitIngest ==
    /\ mode \in {"train", "sequence"}
    /\ continuous \in BOOLEAN
    /\ look_ahead \in BOOLEAN
    /\ mode = "sequence" => ~continuous       \* assert(not continuous)
    /\ mode = "train" => ~look_ahead
    /\ recFiles \in [Frames -> RecStates]
    /\ imgFiles \in SUBSET Frames       \* image files may be missing
    /\ gen_records = EmptyStore
    /\ fsEvents = 0
    /\ GeneratorsNew
    /\ firstPart = [k \in AllKeys(Frames) |-> "none"]
    /\ rpc = "start"
    /\ steps_per_epoch = 0
    /\ fitCalls = 0
    /\ sequences = {}
    /\ train_data = {}
    /\ val_data = {}
    /\ filename_h5 = TRUE
    /\ hookEnv = "local"
    /\ CallbackNew
    /\ PruneOff
    /\ min_records_to_train = MinRecords

NextIngest ==
    \/ train
    \/ sequence_train

SpecIngest == InitIngest /\ [][NextIngest]_vars

----------------------------------------------------------------------------
(* Claims about the store and the batch generator *)

\* C1 (as claimed): the sample found in the store under a key always carries
\* the partition that key was given when it was first ingested.
C1_PartitionNeverChanges ==
    \A k \in DOMAIN gen_records :
        PartName(gen_records[k].train) = firstPart[k]

\* C4 (as claimed): in continuous mode a key evicted by a generator in one
\* traversal is absent from the store when that generator starts its next
\* traversal, and no batch of a traversal holds a key evicted in it.
C4_EvictedStaysOut ==
    continuous =>
        \A g \in Gens :
            /\ ~cameBack[g]
            /\ KeysOfBatch(batch_data[g]) \cap evictedBy[g] = {}

\* C12 (as claimed): in continuous mode a step that leaves the store larger
\* than it was (only the train generator's re-run of ingestion can) invokes
\* reset_best(), and reset_best() is invoked by no other step.
C12_ResetIffStoreGrew ==
    [][continuous =>
         /\ Cardinality(DOMAIN gen_records') > Cardinality(DOMAIN gen_records)
               => reset_best_end_of_epoch'
         /\ (~reset_best_end_of_epoch /\ reset_best_end_of_epoch')
               => Cardinality(DOMAIN gen_records') > Cardinality(DOMAIN gen_records)
      ]_vars

\* C13: in continuous mode a valid record (readable file, image on disk)
\* that is not in the store yet is inserted at the start of a later traversal
\* of the train generator.  collate_records is re-run only when the discovery
\* returns more files than num_records, so the record is still to come only
\* while that test can succeed: once the train generator has started, a
\* pending valid record means the directory holds more files than num_records
C13_PendingRecordWillBeIngested ==
    (continuous /\ gpc["train"] # "new") =>
        \A f \in Frames :
            (/\ recFiles[f] = "ok" /\ f \in imgFiles
             /\ make_key(f) \notin DOMAIN gen_records)
            => Len(gather_records(recFiles)) > num_records

\* C18 (as claimed): in continuous mode the train generator yields no batch in
\* a traversal that began (took its key snapshot) while the store held fewer
\* than min_records_to_train samples.
C18_NoBatchBelowThreshold ==
    (continuous /\ gpc["train"] = "yield")
        => Cardinality(snap["train"]) >= min_records_to_train

\* C23: with the two generators resumed in any order at their yield points,
\* no generator is ended by the lookup of a key that has left the store, and
\* every sample of a batch is, when the batch is yielded, the entry the store
\* holds under its key.
C23_NoLookupOfAbsentKey ==
    [][\A g \in Gens :
         /\ gpc'[g] # "raised"
         /\ (gpc'[g] = "yield" /\ (gpc[g] # "yield" \/ nYield'[g] # nYield[g]))
               => \A i \in 1..Len(batch_data'[g]) :
                     LET k == make_key(batch_data'[g][i])
                     IN  /\ k \in DOMAIN gen_records'
                         /\ gen_records'[k] = batch_data'[g][i]
      ]_vars

\* C23 witness: a generator is suspended at a yield of a traversal in which
\* it came to a key of its snapshot that the other generator had evicted.
C23_Witness ==
    \E g \in Gens :
        /\ continuous
        /\ gpc[g] = "yield"
        /\ skipped[g] # {}
        /\ skipped[g] \cap DOMAIN gen_records = {}

\* C24: in continuous mode a generator that has yielded a batch and is
\* resumed for the next one leaves the store as it is: between two batches
\* of one traversal (which lie in one epoch of steps_per_epoch = 100
\* batches) no entry is added to the store and none is removed from it.
C24_NoStoreChangeBetweenBatches ==
    [][\A g \in Gens :
         (continuous /\ gpc[g] = "yield" /\ keys'[g] # keys[g])
            => gen_records' = gen_records
      ]_vars

\* C25: in non-continuous mode no step of a generator adds an entry to the
\* store, removes one, or changes the partition of a sample: the store is
\* the same before and after every begin of a traversal and every pull.
C25_FixedStoreWhenNotContinuous ==
    [][~continuous => gen_records' = gen_records]_vars

\* C25 witness: in non-continuous mode a generator has ended a traversal in
\* which it took a sample whose image file is gone into its batch, and the
\* sample is still in the store.
C25_Witness ==
    /\ ~continuous
    /\ \E g \in Gens :
         /\ gpc[g] = "end"
         /\ \E i \in 1..Len(batch_data[g]) :
              /\ ~ImageThere(batch_data[g][i])
              /\ make_key(batch_data[g][i]) \in DOMAIN gen_records

\* C26: a pruning iteration whose best validation loss is within the budget
\* (at most max_val_loss = pre-pruning best + limit) persists the model under
\* the name of its channel count and the loop goes on; an iteration whose
\* loss is above the budget persists nothing under that name and is the
\* last one.
C26_PersistAndContinueIffWithinBudget ==
    [][(ppc = "loop" /\ cnn_channels > target_channels)
         => /\ prune_loss' <= max_val_loss
                 => (cnn_channels' \in pruneSaved' /\ ppc' = "loop")
            /\ prune_loss' > max_val_loss
                 => (pruneSaved' = pruneSaved /\ ppc' = "done")
      ]_vars

\* C27: when the pruning loop has stopped because an iteration was over the
\* loss budget, the model the controller holds and the channel count go_train
\* reports are those of the last accepted iteration (of the unpruned model
\* when no iteration was accepted).
C27_KeptModelIsLastAccepted ==
    (ppc = "done" /\ prune_loss > max_val_loss)
       => LET accepted == pruneSaved \cup {orig_channels}
              last     == CHOOSE c \in accepted : \A d \in accepted : c <= d
          IN  /\ kl_channels = last
              /\ cnn_channels = last

\* The samples of g's partition whose images decode
Decodable(g) ==
    {k \in DOMAIN gen_records :
        gen_records[k].train = isTrainSet(g) /\ ImageThere(gen_records[k])}

\* C28: while its partition holds at least batch_size samples whose images
\* decode (and, for the continuous-mode train generator, the store holds at
\* least min_records_to_train samples) a generator has not ended: it is
\* suspended at a yield or can be run on to one.
C28_GeneratorNeverEnds ==
    \A g \in Gens :
        (/\ Cardinality(Decodable(g)) >= BATCH_SIZE
         /\ (isTrainSet(g) /\ continuous)
               => Cardinality(DOMAIN gen_records) >= min_records_to_train)
           => gpc[g] # "raised"

C5_IngestionIdempotent ==
    LET s0      == gen_records
        records == gather_records(recFiles)
    IN  \A c1 \in AllCoins(recFiles) :
          LET s1 == collate_records(records, s0, recFiles, c1)
          IN  /\ \A k \in DOMAIN s0 : k \in DOMAIN s1 /\ s1[k] = s0[k]
              /\ \A c2 \in AllCoins(recFiles) :
                   collate_records(records, s1, recFiles, c2) = s1

\* C5 witness: the train generator re-ran collate_records over directories
\* that had gained records, with samples already in the store.
C5_Witness ==
    /\ continuous
    /\ reset_best_end_of_epoch
    /\ Cardinality(DOMAIN gen_records) = MaxFrames
    /\ fsEvents > 0

\* The samples of g's partition among the keys of its snapshot
Mine(g) == {k \in snap[g] \cap DOMAIN gen_records :
                gen_records[k].train = isTrainSet(g)}

\* No sample of g's snapshot has been evicted or has lost its image
CleanTraversal(g) ==
    \A k \in snap[g] : k \in DOMAIN gen_records /\ ImageThere(gen_records[k])

----------------------------------------------------------------------------
(* Claims about the checkpoint callback *)

MinOf(S) == CHOOSE x \in S : \A y \in S : x <= y
MaxOf(S) == CHOOSE x \in S : \A y \in S : y <= x

\* The last epoch before epoch e during which reset_best() was called, 0 if
\* there is none
LastResetBefore(e) == MaxOf({0} \cup {r \in resetCalled : r < e})

\* The least loss of the epochs a..b, Inf when there is no such epoch
MinLossIn(a, b) ==
    IF a > b THEN Inf ELSE MinOf({lossHist[i] : i \in a..b})

\* What the claims say the tracked best is when epoch e starts to be compared
BestBefore(e) == MinLossIn(LastResetBefore(e) + 1, e - 1)

\* C2 (as claimed): with losses 0.5, 0.3, 0.4 in the first three epochs, a
\* reset_best() call made before epoch 3 ends (during epoch 2 or during
\* epoch 3) makes epoch 3's model persisted.
C2_ResetBeforeEpoch3Ends ==
    (/\ epoch >= 3
     /\ SubSeq(lossHist, 1, 3) = <<5, 3, 4>>
     /\ resetCalled \cap {2, 3} # {})
    => 3 \in savedEpochs

\* C2 (amended): a reset_best() call takes effect at the end of the epoch in
\* which it is made, after that epoch's own comparison.  The model of the
\* epoch that follows is persisted whatever its loss; the epoch of the call
\* itself is compared with the old best, so without a call in the epoch
\* before it an epoch whose loss is not below its predecessor's is not
\* persisted.
C2_ResetTakesEffectNextEpoch ==
    \A e \in 2..epoch :
        /\ (e - 1) \in resetCalled => e \in savedEpochs
        /\ ((e - 1) \notin resetCalled /\ lossHist[e] >= lossHist[e - 1])
               => e \notin savedEpochs

\* C2 witness: losses 0.5, 0.3, 0.4, 0.2 with reset_best() called during
\* epoch 2 only: every epoch was persisted, epoch 3 (0.4 after 0.3) included.
C2_Witness ==
    /\ lossHist = <<5, 3, 4, 2>>
    /\ resetCalled = {2}
    /\ savedEpochs = {1, 2, 3, 4}

\* C3: the model is persisted on exactly the epochs whose loss is strictly
\* below the least loss seen since the last applied reset; after every epoch
\* best is the least loss since the last applied reset (Inf right after one);
\* a reset is pending exactly when reset_best() was called in the epoch being
\* fitted, however many times; and the two exported files are there as soon
\* as one epoch was persisted.
C3_BestIsMinSinceReset ==
    /\ savedEpochs = {e \in 1..epoch : lossHist[e] < BestBefore(e)}
    /\ rpc = "fitting" =>
         /\ best = BestBefore(epoch + 1)
         /\ reset_best_end_of_epoch = ((epoch + 1) \in resetCalled)
         /\ reset_best_end_of_epoch = (callsInEpoch > 0)
         /\ last_modified_time = modelFile
         /\ filename_h5 => /\ jsonFile = (savedEpochs # {})
                           /\ weightsFile = (savedEpochs # {})

\* C3 witness: losses 0.5, 0.3, 0.4, 0.2 without a reset: persisted after
\* epochs 1, 2 and 4, best = 0.2.
C3_Witness ==
    /\ lossHist = <<5, 3, 4, 2>>
    /\ resetCalled = {}
    /\ savedEpochs = {1, 2, 4}
    /\ best = 2
    /\ jsonFile /\ weightsFile

\* C10 (as claimed): with a model file name that does not end in ".h5" no
\* epoch is fitted, and neither exported file is written.
C10_BadNameAbortsBeforeTraining ==
    ~filename_h5 => (epoch = 0 /\ ~jsonFile /\ ~weightsFile)

\* C11 (as claimed): whatever goes wrong inside on_best_model, the run does
\* not fail: with a well-formed file name the epoch loop is never left.
C11_HookFailureNeverAborts ==
    filename_h5 => rpc # "failed"

----------------------------------------------------------------------------
(* Claims about the examples of the sequence generator *)

\* The control pairs of records a..b of a window (counted from 1), in order
RECURSIVE Pairs(_, _, _)
Pairs(s, a, b) ==
    IF a > b THEN <<>>
    ELSE <<s[a].angle, s[a].throttle>> \o Pairs(s, a + 1, b)

RECURSIVE Zeros(_)
Zeros(n) == IF n <= 0 THEN <<>> ELSE <<0>> \o Zeros(n - 1)

\* C19 (as claimed): in look-ahead mode an example is made from a window of
\* 2L frames: the images of the first L frames, L zeroed control pairs, and
\* as target the control pairs of the last L frames in order.
C19_TargetIsSecondHalf ==
    (look_ahead /\ example # NoExample) =>
        /\ Len(seq) = 2 * SEQUENCE_LENGTH
        /\ example.inputs_img = [i \in 1..SEQUENCE_LENGTH |-> ImgOf(seq[i])]
        /\ example.vec_in = Zeros(2 * SEQUENCE_LENGTH)
        /\ example.label_vec
              = Pairs(seq, SEQUENCE_LENGTH + 1, 2 * SEQUENCE_LENGTH)

\* C19 (amended): in look-ahead mode an example is made from a window of 2L
\* frames: the images of the first L frames, L - 1 zeroed control pairs, and
\* as target the control pairs of frames L to 2L in order (L + 1 pairs: the
\* last frame of the first half and the whole second half).
C19_TargetFromLastInputFrame ==
    (look_ahead /\ example # NoExample) =>
        /\ Len(seq) = 2 * SEQUENCE_LENGTH
        /\ example.inputs_img = [i \in 1..SEQUENCE_LENGTH |-> ImgOf(seq[i])]
        /\ example.vec_in = Zeros(2 * (SEQUENCE_LENGTH - 1))
        /\ example.label_vec = Pairs(seq, SEQUENCE_LENGTH, 2 * SEQUENCE_LENGTH)
        /\ Len(example.label_vec) = (SEQUENCE_LENGTH + 1) * 2

\* C19 witness: the example of a look-ahead window whose frames all have
\* different control pairs from their neighbours has been made.
C19_Witness ==
    /\ look_ahead
    /\ example # NoExample
    /\ \A i \in 1..(Len(seq) - 1) : seq[i].angle # seq[i + 1].angle

----------------------------------------------------------------------------
(* Claims about the image cache *)

\* C22 (as claimed): the image put into a batch for a sample is the one that
\* decoding the file and augmenting it (if enabled) at that use gives, with
\* the cache on as with the cache off.
C22_CachedImageIsFreshImage == placed.img = fresh

----------------------------------------------------------------------------
(* Claims about the pruning loop *)

\* C16 (as claimed): from 100 channels, with 5 percent removed per iteration
\* and a target of 80 channels, the loop makes at most 5 iterations, the
\* tracked channel count goes down by 5 with each of them (100, 95, 90, 85,
\* 80), and the loop ends before 80 only on a loss outside the budget.
C16_PruneSequence ==
    (/\ ppc \in {"loop", "done"}
     /\ orig_channels = 100 /\ percent_pruning = 5 /\ target_channels = 80)
    => /\ pruneIters <= 5
       /\ cnn_channels = 100 - 5 * pruneIters
       /\ ppc = "done" => (cnn_channels = 80 \/ prune_loss >= max_val_loss)

\* C17 (as claimed): the pruning loop ends.
C17_PruneLoopTerminates == <>(ppc = "done")

----------------------------------------------------------------------------
(* Claims about the start of a run *)

Recorded == {f \in DOMAIN recFiles : recFiles[f] = "ok"}

\* C6 (as claimed): every recorded frame has a store entry of its own: the
\* entry under its key is that frame.
C6_EveryFrameHasItsOwnEntry ==
    rpc # "start" =>
        \A f \in Recorded :
            /\ make_key(f) \in DOMAIN gen_records
            /\ ImgOf(gen_records[make_key(f)]) = f

\* The target_len frames from f on are all recorded in f's directory
FullRun(f) ==
    \A i \in 0..(target_len - 1) :
        [tub_path |-> f.tub_path, index |-> f.index + i] \in Recorded

\* C8 (as claimed): sequence_train builds one window for each start frame
\* whose target_len consecutive indices are all recorded, and every window
\* holds target_len samples of one directory with adjacent ascending indices.
C8_WindowsAreConsecutiveFrames ==
    (mode = "sequence" /\ rpc # "start") =>
        /\ Cardinality(sequences) = Cardinality({f \in Recorded : FullRun(f)})
        /\ \A w \in sequences :
             /\ Len(w) = target_len
             /\ \A i \in 1..Len(w) :
                  /\ w[i].tub_path = w[1].tub_path
                  /\ w[i].index = w[1].index + i - 1

\* C21 (as claimed): every sample in the store had its image file when it was
\* ingested: after the ingestion of a run (during which no file changes) the
\* image of every store entry is on disk.
C21_StoredSamplesHaveImages ==
    rpc # "start" =>
        \A k \in DOMAIN gen_records : ImageThere(gen_records[k])

\* C14 (as claimed): ingestion is never aborted by one bad record: when
\* train() or sequence_train() has ingested directories that hold unreadable
\* or garbled records, no exception has left the ingestion, nothing is stored
\* for a faulty record and every good record is in the store.
C14_BadRecordNeverAbortsIngestion ==
    rpc # "start" =>
        /\ rpc # "ingest_raised"
        /\ \A f \in DOMAIN recFiles :
             /\ recFiles[f] = "ok" => make_key(f) \in DOMAIN gen_records
             /\ recFiles[f] \in {"bad", "nofield"}
                   => make_key(f) \notin DOMAIN gen_records

\* C20 (as claimed): in sequence mode every window is in exactly one of
\* train_data and val_data, and no frame of a training window is a frame of a
\* validation window (looked at where every window built is a run of frames
\* of one tub).
C20_SplitLeaksNoFrame ==
    (/\ mode = "sequence" /\ rpc = "fitting"
     /\ \A w \in sequences :
          \A i \in 1..Len(w) : /\ w[i].tub_path = w[1].tub_path
                              /\ w[i].index = w[1].index + i - 1) =>
        /\ train_data \cup val_data = sequences
        /\ train_data \cap val_data = {}
        /\ \A w \in train_data : \A v \in val_data :
             SeqToSet(w) \cap SeqToSet(v) = {}

\* C9: in non-continuous training, when the train samples (the train windows
\* in sequence mode) make fewer than 2 batches, the run has failed:
\* fit_generator was never called, no epoch was fitted, and neither the model
\* file nor the exported files were written.
C9_TooFewStepsFailsBeforeFit ==
    (/\ rpc # "start"
     /\ ~continuous
     /\ (IF mode = "train" THEN NumTrain(gen_records)
         ELSE Cardinality(train_data)) \div BATCH_SIZE < 2)
    => /\ rpc = "failed"
       /\ fitCalls = 0
       /\ epoch = 0
       /\ modelFile = 0
       /\ ~jsonFile
       /\ ~weightsFile

\* C9 witness: train() failed over a store whose train samples make exactly
\* one batch.
C9_Witness ==
    /\ mode = "train"
    /\ ~continuous
    /\ rpc = "failed"
    /\ NumTrain(gen_records) \div BATCH_SIZE = 1
    /\ steps_per_epoch = 1

====
